---- MODULE Spec2Model ----
(***************************************************************************)
(* Model of munchmates/data/construct.py: the offline script that reads    *)
(* ingredients.txt and builds the alias map (ingredients.json) and the     *)
(* flat word list (words.json).                                            *)
(*                                                                         *)
(* A Python str is a sequence of characters; a character is a one-element  *)
(* TLA+ string, except the fullwidth letter, which is named by FWA.        *)
(***************************************************************************)
EXTENDS Integers, Sequences, FiniteSets, TLC

(* ---------------------------------------------------------------------- *)
(* Bounds of the model                                                     *)
(* ---------------------------------------------------------------------- *)

\* longest ingredients.txt (in characters, newlines included) that is explored
MaxFileLen == 5

(* ---------------------------------------------------------------------- *)
(* Characters                                                              *)
(* ---------------------------------------------------------------------- *)

SP == " "
TAB == "\t"
NL == "\n"
COMMA == ","
QUOTE == "\""
BSL == "\\"
\* U+FF21 FULLWIDTH LATIN CAPITAL LETTER A: NFKC folds it to "A"
FWA == "U+FF21"

\* the characters ingredients.txt is made of
FileAlphabet == {FWA, QUOTE, SP, TAB, COMMA, NL}

\* str.isspace() / the regex class \s, on the characters of the model
IsSpace(c) == c \in {SP, TAB, NL}

\* unicodedata.normalize("NFKC", .) on one character
NFKCChar(c) == IF c = FWA THEN "A" ELSE c

\* str.lower() on one character
LowerChar(c) == IF c = "A" THEN "a" ELSE c

(* ---------------------------------------------------------------------- *)
(* String functions of the script                                          *)
(* ---------------------------------------------------------------------- *)

\* unicodedata.normalize("NFKC", line)
normalize(s) == [i \in 1..Len(s) |-> NFKCChar(s[i])]

\* str.lower()
lower(s) == [i \in 1..Len(s) |-> LowerChar(s[i])]

RECURSIVE lstrip(_)
lstrip(s) ==
    IF s # <<>> /\ IsSpace(Head(s)) THEN lstrip(Tail(s)) ELSE s

RECURSIVE rstrip(_)
rstrip(s) ==
    IF s # <<>> /\ IsSpace(s[Len(s)]) THEN rstrip(SubSeq(s, 1, Len(s) - 1)) ELSE s

\* str.strip()
strip(s) == rstrip(lstrip(s))

\* str.split(sep) for a one-character separator: always at least one piece
RECURSIVE split_sep(_, _)
split_sep(s, sep) ==
    IF \E i \in 1..Len(s) : s[i] = sep
    THEN LET i == CHOOSE j \in 1..Len(s) :
                      s[j] = sep /\ \A k \in 1..(j - 1) : s[k] # sep
         IN  <<SubSeq(s, 1, i - 1)>> \o split_sep(SubSeq(s, i + 1, Len(s)), sep)
    ELSE <<s>>

\* length of the whitespace run (resp. non-whitespace run) s starts with
RECURSIVE SpaceRun(_)
SpaceRun(s) ==
    IF s # <<>> /\ IsSpace(Head(s)) THEN 1 + SpaceRun(Tail(s)) ELSE 0

RECURSIVE WordRun(_)
WordRun(s) ==
    IF s # <<>> /\ ~IsSpace(Head(s)) THEN 1 + WordRun(Tail(s)) ELSE 0

\* re.sub(r"\s+", " ", s): every maximal whitespace run becomes one space
RECURSIVE re_sub_runs(_)
re_sub_runs(s) ==
    IF s = <<>> THEN <<>>
    ELSE IF IsSpace(Head(s))
         THEN <<SP>> \o re_sub_runs(SubSeq(s, SpaceRun(s) + 1, Len(s)))
         ELSE <<Head(s)>> \o re_sub_runs(Tail(s))

\* variant: the whitespace runs are collapsed, not deleted
re_sub_each_collapse(s) == re_sub_runs(s)

\* variant: only the ASCII space is deleted, as by str.replace(" ", "")
re_sub_each_spaces_only(s) == SelectSeq(s, LAMBDA c : c # SP)

\* re.sub(r"\s", "", s): every whitespace character is deleted
re_sub_each(s) == SelectSeq(s, LAMBDA c : ~IsSpace(c))

\* variant: str.split(" "), which cuts at every single space and nowhere else
split_on_space(s) == split_sep(s, SP)

\* str.split() with no argument: the maximal non-whitespace runs, none empty
RECURSIVE split_ws(_)
split_ws(s) ==
    IF s = <<>> THEN <<>>
    ELSE IF IsSpace(Head(s))
         THEN split_ws(SubSeq(s, SpaceRun(s) + 1, Len(s)))
         ELSE <<SubSeq(s, 1, WordRun(s))>>
                  \o split_ws(SubSeq(s, WordRun(s) + 1, Len(s)))

\* iteration over the text file: lines keep their newline, the last line may
\* lack one, an empty file has no line
RECURSIVE readlines(_)
readlines(text) ==
    IF text = <<>> THEN <<>>
    ELSE IF \E i \in 1..Len(text) : text[i] = NL
         THEN LET i == CHOOSE j \in 1..Len(text) :
                           text[j] = NL /\ \A k \in 1..(j - 1) : text[k] # NL
              IN  <<SubSeq(text, 1, i)>> \o readlines(SubSeq(text, i + 1, Len(text)))
         ELSE <<text>>

\* line 13: the comma-separated tokens of a line
ingrs_of(line) == split_sep(strip(normalize(line)), COMMA)

\* line 14: the canonical form of a line
canonical_of(line) == re_sub_runs(lower(lower(ingrs_of(line)[1])))

\* line 16: the token as the inner loop rebinds it
ingr_of(tok) == lower(lower(strip(tok)))

(* ---------------------------------------------------------------------- *)
(* dict: insertion-ordered, a sequence of <<key, value>> with unique keys  *)
(* ---------------------------------------------------------------------- *)

dict_keys(d) == {d[n][1] : n \in 1..Len(d)}

dict_get(d, k) == d[CHOOSE n \in 1..Len(d) : d[n][1] = k][2]

\* variant: dict.setdefault(k, v), the first value of a key stays
dict_set_keep_first(d, k, v) ==
    IF \E n \in 1..Len(d) : d[n][1] = k THEN d ELSE Append(d, <<k, v>>)

\* variant: an association list that is appended to without a lookup
dict_set_append(d, k, v) == Append(d, <<k, v>>)

\* d[k] = v: a present key keeps its position and takes the new value
dict_set(d, k, v) ==
    IF k \in dict_keys(d)
    THEN [n \in 1..Len(d) |-> IF d[n][1] = k THEN <<k, v>> ELSE d[n]]
    ELSE Append(d, <<k, v>>)

(* ---------------------------------------------------------------------- *)
(* json.dump with its defaults (ensure_ascii, separators ", " and ": ")    *)
(* ---------------------------------------------------------------------- *)

\* variant: no character is escaped
json_escape_raw(c) == <<c>>

\* the escape of one character inside a JSON string
json_escape(c) ==
    CASE c = QUOTE -> <<BSL, QUOTE>>
      [] c = BSL   -> <<BSL, BSL>>
      [] c = NL    -> <<BSL, "n">>
      [] c = TAB   -> <<BSL, "t">>
      [] c = FWA   -> <<BSL, "u", "f", "f", "2", "1">>
      [] OTHER     -> <<c>>

RECURSIVE json_escape_all(_)
json_escape_all(s) ==
    IF s = <<>> THEN <<>> ELSE json_escape(Head(s)) \o json_escape_all(Tail(s))

json_string(s) == <<QUOTE>> \o json_escape_all(s) \o <<QUOTE>>

RECURSIVE json_items(_)
json_items(ws) ==
    IF ws = <<>> THEN <<>>
    ELSE json_string(Head(ws))
             \o (IF Len(ws) > 1 THEN <<COMMA, SP>> ELSE <<>>)
             \o json_items(Tail(ws))

\* the text json.dump writes for a list of str
json_dump_list(ws) == <<"[">> \o json_items(ws) \o <<"]">>

RECURSIVE json_members(_)
json_members(d) ==
    IF d = <<>> THEN <<>>
    ELSE json_string(Head(d)[1]) \o <<":", SP>> \o json_string(Head(d)[2])
             \o (IF Len(d) > 1 THEN <<COMMA, SP>> ELSE <<>>)
             \o json_members(Tail(d))

\* the text json.dump writes for a dict of str to str
json_dump_dict(d) == <<"{">> \o json_members(d) \o <<"}">>

(* ---------------------------------------------------------------------- *)
(* json.load of an object of strings, as a reader of ingredients.json does *)
(* ---------------------------------------------------------------------- *)

\* the string literal whose opening quote is at t[p - 1], read from t[p]:
\* its value so far is acc; returns the value and the index after the
\* closing quote
RECURSIVE json_scan_string(_, _, _)
json_scan_string(t, p, acc) ==
    IF p > Len(t) THEN [val |-> <<"JSONDecodeError">>, next |-> p]
    ELSE IF t[p] = QUOTE THEN [val |-> acc, next |-> p + 1]
    ELSE IF t[p] # BSL THEN json_scan_string(t, p + 1, Append(acc, t[p]))
    ELSE IF p + 1 > Len(t) \/ (t[p + 1] = "u" /\ p + 5 > Len(t))
         THEN [val |-> <<"JSONDecodeError">>, next |-> p]
    ELSE IF t[p + 1] = "u"
         THEN json_scan_string(t, p + 6,
                  Append(acc, IF SubSeq(t, p + 2, p + 5) = <<"f", "f", "2", "1">>
                              THEN FWA ELSE "?"))
    ELSE json_scan_string(t, p + 2,
             Append(acc, CASE t[p + 1] = "n" -> NL
                           [] t[p + 1] = "t" -> TAB
                           [] OTHER -> t[p + 1]))

\* the members of an object from t[p], a key's opening quote, on
RECURSIVE json_scan_members(_, _, _)
json_scan_members(t, p, acc) ==
    LET k == json_scan_string(t, p + 1, <<>>)
        \* k.next is ":", then a space, then the value's opening quote
        v == json_scan_string(t, k.next + 3, <<>>)
        d == dict_set(acc, k.val, v.val)
    IN  IF v.next >= Len(t) THEN d
        ELSE IF t[v.next] = COMMA THEN json_scan_members(t, v.next + 2, d)
        ELSE <<>>

json_load_dict(t) ==
    IF Len(t) < 3 THEN <<>> ELSE json_scan_members(t, 2, <<>>)

(* ---------------------------------------------------------------------- *)
(* State                                                                   *)
(* ---------------------------------------------------------------------- *)

VARIABLES
    ingredients_txt,   \* the text of ./ingredients.txt
    pc,                \* where the script is
    f,                 \* the lines the file iterator has not yielded yet
    ingrs,             \* line 13: the tokens of the current line
    canonical,         \* line 14: the canonical form of the current line
    todo,              \* the tokens of ingrs the inner loop has not taken yet
    ingr_dict,         \* line 8: the alias map
    words,             \* line 9: the word list
    words_json,        \* the file ./words.json
    ingredients_json,  \* the file ingredients.json
    error              \* the uncaught exception that ended the run, or "none"

vars == <<ingredients_txt, pc, f, ingrs, canonical, todo, ingr_dict, words,
          words_json, ingredients_json, error>>

\* an output file the run has not opened: whatever was there is still there
Untouched == [status |-> "untouched", text |-> <<>>]

\* open(.., "w") truncated the file and json.dump raised before it finished
Partial == [status |-> "partial", text |-> <<>>]

Written(text) == [status |-> "written", text |-> text]

RECURSIVE Texts(_)
Texts(n) ==
    IF n = 0 THEN {<<>>}
    ELSE Texts(n - 1) \cup {Append(t, c) : t \in Texts(n - 1), c \in FileAlphabet}

Init ==
    /\ ingredients_txt \in Texts(MaxFileLen)
    /\ pc = "open"
    /\ f = <<>>
    /\ ingrs = <<>>
    /\ canonical = <<>>
    /\ todo = <<>>
    /\ ingr_dict = <<>>
    /\ words = <<>>
    /\ words_json = Untouched
    /\ ingredients_json = Untouched
    /\ error = "none"

(* ---------------------------------------------------------------------- *)
(* Steps of the script                                                     *)
(* ---------------------------------------------------------------------- *)

\* an uncaught exception: the run ends, nothing else changes
Raise(e) ==
    /\ pc' = "crashed"
    /\ error' = e

\* lines 7-10: open("./ingredients.txt") succeeds, the accumulators are bound
OpenInput ==
    /\ pc = "open"
    /\ pc' = "for_line"
    /\ f' = readlines(ingredients_txt)
    /\ ingr_dict' = <<>>
    /\ words' = <<>>
    /\ UNCHANGED <<ingredients_txt, ingrs, canonical, todo, words_json,
                   ingredients_json, error>>

\* variant: the outputs are opened for writing before the input is opened
OpenInputFails_outputs_first ==
    /\ pc = "open"
    /\ Raise("input")
    /\ words_json' = Partial
    /\ ingredients_json' = Partial
    /\ UNCHANGED <<ingredients_txt, f, ingrs, canonical, todo, ingr_dict, words>>

\* line 7: ingredients.txt is missing or unreadable
OpenInputFails ==
    /\ pc = "open"
    /\ Raise("input")
    /\ UNCHANGED <<ingredients_txt, f, ingrs, canonical, todo, ingr_dict, words,
                   words_json, ingredients_json>>

\* lines 11-14: the iterator yields a line; it is normalized, trimmed, split
NextLine ==
    /\ pc = "for_line"
    /\ f # <<>>
    /\ f' = Tail(f)
    /\ ingrs' = ingrs_of(Head(f))
    /\ canonical' = canonical_of(Head(f))
    /\ todo' = ingrs_of(Head(f))
    /\ pc' = "for_ingr"
    /\ UNCHANGED <<ingredients_txt, ingr_dict, words, words_json,
                   ingredients_json, error>>

\* line 11: reading the next line raises (undecodable bytes, I/O error)
ReadFails ==
    /\ pc = "for_line"
    /\ f # <<>>
    /\ Raise("read")
    /\ UNCHANGED <<ingredients_txt, f, ingrs, canonical, todo, ingr_dict, words,
                   words_json, ingredients_json>>

\* variant: an empty token is skipped (if not ingr: continue)
NextIngr_skip_empty ==
    /\ pc = "for_ingr"
    /\ todo # <<>>
    /\ LET ingr == ingr_of(Head(todo))
           ingrsquashed == re_sub_each(ingr)
       IN  /\ ingr_dict' = IF ingr = <<>> THEN ingr_dict
                           ELSE dict_set(ingr_dict, ingrsquashed, canonical)
           /\ words' = words \o split_ws(ingr)
    /\ todo' = Tail(todo)
    /\ UNCHANGED <<ingredients_txt, pc, f, ingrs, canonical, words_json,
                   ingredients_json, error>>

\* lines 15-19: one turn of the inner loop
NextIngr ==
    /\ pc = "for_ingr"
    /\ todo # <<>>
    /\ LET ingr == ingr_of(Head(todo))
           ingrsquashed == re_sub_each(ingr)
       IN  /\ ingr_dict' = dict_set(ingr_dict, ingrsquashed, canonical)
           /\ words' = words \o split_ws(ingr)
    /\ todo' = Tail(todo)
    /\ UNCHANGED <<ingredients_txt, pc, f, ingrs, canonical, words_json,
                   ingredients_json, error>>

\* line 15: the inner loop is exhausted, back to the outer loop
EndLine ==
    /\ pc = "for_ingr"
    /\ todo = <<>>
    /\ pc' = "for_line"
    /\ UNCHANGED <<ingredients_txt, f, ingrs, canonical, todo, ingr_dict, words,
                   words_json, ingredients_json, error>>

\* line 11: the iterator is exhausted, on to the writes
EndFile ==
    /\ pc = "for_line"
    /\ f = <<>>
    /\ pc' = "dump_words"
    /\ UNCHANGED <<ingredients_txt, f, ingrs, canonical, todo, ingr_dict, words,
                   words_json, ingredients_json, error>>

\* line 21: json.dump(words, open("./words.json", "w")); the file object is
\* referenced by nothing once the call returns, so it is closed, and its
\* buffer written out, before line 22 starts
DumpWords ==
    /\ pc = "dump_words"
    /\ words_json' = Written(json_dump_list(words))
    /\ pc' = "dump_dict"
    /\ UNCHANGED <<ingredients_txt, f, ingrs, canonical, todo, ingr_dict, words,
                   ingredients_json, error>>

\* line 21: open("./words.json", "w") raises, or json.dump raises after it
DumpWordsFails ==
    /\ pc = "dump_words"
    /\ words_json' \in {words_json, Partial}
    /\ Raise("words_json")
    /\ UNCHANGED <<ingredients_txt, f, ingrs, canonical, todo, ingr_dict, words,
                   ingredients_json>>

\* line 22: json.dump(ingr_dict, open("ingredients.json", "w"))
DumpDict ==
    /\ pc = "dump_dict"
    /\ ingredients_json' = Written(json_dump_dict(ingr_dict))
    /\ pc' = "done"
    /\ UNCHANGED <<ingredients_txt, f, ingrs, canonical, todo, ingr_dict, words,
                   words_json, error>>

\* variant: a failed second write removes the first output again
DumpDictFails_rollback ==
    /\ pc = "dump_dict"
    /\ ingredients_json' \in {ingredients_json, Partial}
    /\ words_json' = Untouched
    /\ Raise("ingredients_json")
    /\ UNCHANGED <<ingredients_txt, f, ingrs, canonical, todo, ingr_dict, words>>

\* line 22: open("ingredients.json", "w") raises, or json.dump raises after it
DumpDictFails ==
    /\ pc = "dump_dict"
    /\ ingredients_json' \in {ingredients_json, Partial}
    /\ Raise("ingredients_json")
    /\ UNCHANGED <<ingredients_txt, f, ingrs, canonical, todo, ingr_dict, words,
                   words_json>>

Next ==
    \/ OpenInput
    \/ OpenInputFails
    \/ NextLine
    \/ ReadFails
    \/ NextIngr
    \/ EndLine
    \/ EndFile
    \/ DumpWords
    \/ DumpWordsFails
    \/ DumpDict
    \/ DumpDictFails

Spec == Init /\ [][Next]_vars

(* ---------------------------------------------------------------------- *)
(* Vocabulary of the properties                                            *)
(* ---------------------------------------------------------------------- *)

\* the input lines, in file order
Lines == readlines(ingredients_txt)

\* the comma-separated tokens of every input line: FileTokens[l][t] is the
\* t-th token of the l-th line
FileTokens == LET ls == Lines IN [l \in 1..Len(ls) |-> ingrs_of(ls[l])]

\* both loops have run to their end: the script is at or past line 21
LoopDone == pc \in {"dump_words", "dump_dict", "done"}
               \/ error \in {"words_json", "ingredients_json"}

\* the index in Lines of the line the inner loop is working on
CurrentLine == Len(Lines) - Len(f)

\* the tokens of the current line that the inner loop has taken
Taken == SubSeq(ingrs, 1, Len(ingrs) - Len(todo))

\* the lowercased, whitespace-removed form of a token
KeyOf(tok) == SelectSeq(lower(tok), LAMBDA c : ~IsSpace(c))

\* the lines of the token table toks that have a token whose key is k
LinesWithKey(toks, k) ==
    {l \in 1..Len(toks) : \E t \in 1..Len(toks[l]) : KeyOf(toks[l][t]) = k}

\* the last line, in file order, with a token whose key is k
LastLineWithKey(toks, k) ==
    LET ls == LinesWithKey(toks, k) IN CHOOSE l \in ls : \A m \in ls : m <= l

HasWhitespace(s) == \E i \in 1..Len(s) : IsSpace(s[i])

\* s has no character but whitespace (so also: s is empty)
IsBlank(s) == \A i \in 1..Len(s) : IsSpace(s[i])

\* the whitespace-separated sub-words of s, stated by their positions: a
\* sub-word starts at a non-whitespace character that follows whitespace or
\* starts s, and runs to the last non-whitespace character before the next
\* whitespace
WordStarts(s) ==
    {i \in 1..Len(s) : ~IsSpace(s[i]) /\ (i = 1 \/ IsSpace(s[i - 1]))}

WordEnd(s, i) ==
    CHOOSE j \in i..Len(s) :
        /\ \A k \in i..j : ~IsSpace(s[k])
        /\ j = Len(s) \/ IsSpace(s[j + 1])

NthStart(s, n) ==
    CHOOSE i \in WordStarts(s) : Cardinality({j \in WordStarts(s) : j < i}) = n - 1

SubWords(s) ==
    [n \in 1..Cardinality(WordStarts(s)) |->
        SubSeq(s, NthStart(s, n), WordEnd(s, NthStart(s, n)))]

\* the concatenation of a sequence of sequences
RECURSIVE Flatten(_)
Flatten(ss) == IF ss = <<>> THEN <<>> ELSE Head(ss) \o Flatten(Tail(ss))

\* the sub-words of the tokens of one line, in token order then split order
WordsOfLine(tokens) ==
    Flatten([t \in 1..Len(tokens) |-> SubWords(lower(strip(tokens[t])))])

\* the sub-words of all lines, in file order
WordsOfFile ==
    LET toks == FileTokens
    IN  Flatten([l \in 1..Len(toks) |-> WordsOfLine(toks[l])])

RECURSIVE Sum(_)
Sum(ns) == IF ns = <<>> THEN 0 ELSE Head(ns) + Sum(Tail(ns))

\* the number of sub-words over all tokens of all lines
SubWordCount ==
    LET toks == FileTokens
    IN  Sum([l \in 1..Len(toks) |->
                Sum([t \in 1..Len(toks[l]) |->
                        Cardinality(WordStarts(lower(strip(toks[l][t]))))])])

\* s with every maximal whitespace run replaced by one ASCII space, stated
\* by positions: a whitespace character is kept (as a space) only when it
\* starts its run
Collapsed(s) ==
    LET keep == {i \in 1..Len(s) : ~IsSpace(s[i]) \/ i = 1 \/ ~IsSpace(s[i - 1])}
        nth(n) == CHOOSE i \in keep : Cardinality({j \in keep : j < i}) = n - 1
    IN  [n \in 1..Cardinality(keep) |->
            IF IsSpace(s[nth(n)]) THEN SP ELSE s[nth(n)]]

\* the canonical form of a line with these tokens: its first token,
\* lowercased and whitespace-collapsed
CanonicalForm(tokens) == Collapsed(lower(tokens[1]))

\* the number of entries of the alias map under key k
Entries(d, k) == Cardinality({n \in 1..Len(d) : d[n][1] = k})

(* ---------------------------------------------------------------------- *)
(* Properties                                                              *)
(* ---------------------------------------------------------------------- *)

\* C1 (as stated): in the final alias map, the key of every token of every
\* line is present and maps to the canonical form of the token's own line.
C1_OwnLine ==
    LoopDone =>
        LET toks == FileTokens
        IN  \A l \in 1..Len(toks) : \A t \in 1..Len(toks[l]) :
                LET k == KeyOf(toks[l][t])
                IN  /\ k \in dict_keys(ingr_dict)
                    /\ dict_get(ingr_dict, k) = CanonicalForm(toks[l])

\* C1 (amended): in the final alias map, the key of every token of every
\* line is present and maps to the canonical form of the last line, in file
\* order, that has a token with that key; that is the token's own line when
\* no later line produces the key.
C1_LastLine ==
    LoopDone =>
        LET toks == FileTokens
        IN  \A l \in 1..Len(toks) : \A t \in 1..Len(toks[l]) :
                LET k == KeyOf(toks[l][t])
                    last == LastLineWithKey(toks, k)
                IN  /\ k \in dict_keys(ingr_dict)
                    /\ dict_get(ingr_dict, k) = CanonicalForm(toks[last])
                    /\ last = l => dict_get(ingr_dict, k) = CanonicalForm(toks[l])

\* the run is over, and a token's key was produced again by a later line
\* with another canonical form
C1_Witness ==
    /\ pc = "done"
    /\ LET toks == FileTokens
       IN  \E l \in 1..Len(toks) : \E t \in 1..Len(toks[l]) :
               LET k == KeyOf(toks[l][t])
                   last == LastLineWithKey(toks, k)
               IN  /\ last > l
                   /\ CanonicalForm(toks[last]) # CanonicalForm(toks[l])
                   /\ dict_get(ingr_dict, k) # CanonicalForm(toks[l])

\* C2, the final map: a key produced by two or more lines has exactly one
\* entry, holding the canonical form of the last such line.
C2_Final ==
    LoopDone =>
        LET toks == FileTokens
        IN  \A l \in 1..Len(toks) : \A t \in 1..Len(toks[l]) :
                LET k == KeyOf(toks[l][t])
                IN  Cardinality(LinesWithKey(toks, k)) >= 2 =>
                        /\ Entries(ingr_dict, k) = 1
                        /\ dict_get(ingr_dict, k)
                               = CanonicalForm(toks[LastLineWithKey(toks, k)])

\* C2, the insertion: when the inner loop takes a token whose key is already
\* in the map, the step raises nothing, the key's value becomes the canonical
\* form of the current line, and the map keeps one entry per key.
C2_Overwrite ==
    (pc = "for_ingr" /\ todo # <<>> /\ KeyOf(Head(todo)) \in dict_keys(ingr_dict)) =>
        /\ pc' = "for_ingr"
        /\ error' = "none"
        /\ todo' = Tail(todo)
        /\ dict_get(ingr_dict', KeyOf(Head(todo))) = CanonicalForm(ingrs)
        /\ Len(ingr_dict') = Len(ingr_dict)
        /\ \A k \in dict_keys(ingr_dict') : Entries(ingr_dict', k) = 1

\* C2: a key produced by tokens on two or more lines ends with the canonical
\* form of the last such line; every later insertion overwrites the earlier
\* value without an error, and the key keeps exactly one canonical form.
C2_LastWriteWins == []C2_Final /\ [][C2_Overwrite]_vars

\* the inner loop has just overwritten the value an earlier line gave to a
\* key with the different canonical form of the current line
C2_Witness ==
    /\ pc = "for_ingr"
    /\ error = "none"
    /\ Taken # <<>>
    /\ LET k == KeyOf(Taken[Len(Taken)])
           toks == FileTokens
       IN  /\ \E l \in LinesWithKey(toks, k) :
                  l < CurrentLine /\ CanonicalForm(toks[l]) # canonical
           /\ Entries(ingr_dict, k) = 1
           /\ dict_get(ingr_dict, k) = canonical

\* C3: the final word list is the concatenation, in file order, then token
\* order, then split order, of the whitespace-separated sub-words of every
\* lowercased, trimmed token, duplicates kept; its length is the total number
\* of such sub-words.
C3_WordList ==
    LoopDone =>
        /\ words = WordsOfFile
        /\ Len(words) = SubWordCount

\* the run is over on a file of several lines where a token has two
\* sub-words and a word occurs twice in the list
C3_Witness ==
    /\ pc = "done"
    /\ Len(Lines) >= 2
    /\ LET toks == FileTokens
       IN  \E l \in 1..Len(toks) : \E t \in 1..Len(toks[l]) :
               Cardinality(WordStarts(strip(toks[l][t]))) >= 2
    /\ \E m, n \in 1..Len(words) : m < n /\ words[m] = words[n]

\* the alias map read back from the written ingredients.json
ReadBack == json_load_dict(ingredients_json.text)

\* C4 (as stated): after a complete run, the alias map read back from
\* ingredients.json gives, for the key of every token, the canonical form of
\* the token's own line.
C4_RoundTripOwnLine ==
    pc = "done" =>
        LET toks == FileTokens
            back == ReadBack
        IN  \A l \in 1..Len(toks) : \A t \in 1..Len(toks[l]) :
                LET k == KeyOf(toks[l][t])
                IN  /\ k \in dict_keys(back)
                    /\ dict_get(back, k) = CanonicalForm(toks[l])

\* C4 (amended): after a complete run, the alias map read back from
\* ingredients.json is the alias map that was written, and gives, for the key
\* of every token, the canonical form of the last line, in file order, that
\* has a token with that key.
C4_RoundTripLastLine ==
    pc = "done" =>
        LET toks == FileTokens
            back == ReadBack
        IN  /\ back = ingr_dict
            /\ \A l \in 1..Len(toks) : \A t \in 1..Len(toks[l]) :
                   LET k == KeyOf(toks[l][t])
                   IN  /\ k \in dict_keys(back)
                       /\ dict_get(back, k)
                              = CanonicalForm(toks[LastLineWithKey(toks, k)])

\* ingredients.json was written with several members, one of them with a
\* key and a value that need escaping
C4_Witness ==
    /\ pc = "done"
    /\ ingredients_json.status = "written"
    /\ Len(ingr_dict) >= 2
    /\ \E n \in 1..Len(ingr_dict) :
           /\ \E i \in 1..Len(ingr_dict[n][1]) : ingr_dict[n][1][i] = QUOTE
           /\ \E i \in 1..Len(ingr_dict[n][2]) : ingr_dict[n][2][i] = QUOTE

\* C5: when the input cannot be opened or read the run ends in an error with
\* both outputs untouched; an output is touched only once every line has been
\* read and processed.
C5_InputFailure ==
    /\ error \in {"input", "read"} =>
           /\ pc = "crashed"
           /\ words_json = Untouched
           /\ ingredients_json = Untouched
    /\ (words_json # Untouched \/ ingredients_json # Untouched) =>
           /\ f = <<>>
           /\ todo = <<>>
           /\ LoopDone

\* the input could not be opened and the run has ended
C5_Witness ==
    /\ error = "input"
    /\ pc = "crashed"
    /\ ingredients_txt # <<>>

\* C6: the word list is written first and the alias map second, with no
\* rollback: when the alias-map file has been touched, or writing it has
\* failed, words.json holds the whole word list; when writing the word list
\* has failed, ingredients.json is untouched.
C6_WriteOrder ==
    /\ (ingredients_json # Untouched \/ error = "ingredients_json" \/ pc = "done") =>
           words_json = Written(json_dump_list(words))
    /\ error = "words_json" =>
           /\ pc = "crashed"
           /\ ingredients_json = Untouched
    /\ error = "ingredients_json" =>
           /\ pc = "crashed"
           /\ ingredients_json.status # "written"

\* writing the alias map failed after a non-empty word list was written
C6_Witness ==
    /\ error = "ingredients_json"
    /\ ingredients_json = Partial
    /\ words_json.status = "written"
    /\ words # <<>>

\* C7: at every point of the run, no key of the alias map contains a
\* whitespace character or a comma.
C7_KeysSquashed ==
    \A n \in 1..Len(ingr_dict) :
        \A i \in 1..Len(ingr_dict[n][1]) :
            ~IsSpace(ingr_dict[n][1][i]) /\ ingr_dict[n][1][i] # COMMA

\* a token with whitespace inside it has been taken: its two sub-words are
\* in the word list and the map has a key of two characters
C7_Witness ==
    /\ pc = "for_ingr"
    /\ Taken # <<>>
    /\ HasWhitespace(strip(Taken[Len(Taken)]))
    /\ KeyOf(Taken[Len(Taken)]) \in dict_keys(ingr_dict)
    /\ Len(KeyOf(Taken[Len(Taken)])) >= 2

\* C8 (as stated): every value of the alias map has no leading and no
\* trailing whitespace, and every whitespace run inside it is one ASCII space.
C8_CanonicalTrimmed ==
    \A n \in 1..Len(ingr_dict) :
        LET v == ingr_dict[n][2]
        IN  /\ v # <<>> => ~IsSpace(v[1]) /\ ~IsSpace(v[Len(v)])
            /\ \A i \in 1..Len(v) :
                   IsSpace(v[i]) => v[i] = SP /\ (i = Len(v) \/ ~IsSpace(v[i + 1]))

\* C9: an empty token is taken like any other: the step stays in the inner
\* loop, the empty key is in the map afterwards with the canonical form of
\* the current line, whatever it held before, and the word list is unchanged;
\* a blank line has the empty canonical form and one empty token.
C9_EmptyTokenStep ==
    /\ (pc = "for_ingr" /\ todo # <<>> /\ IsBlank(Head(todo))) =>
           /\ pc' = "for_ingr"
           /\ todo' = Tail(todo)
           /\ <<>> \in dict_keys(ingr_dict')
           /\ dict_get(ingr_dict', <<>>) = CanonicalForm(ingrs_of(Lines[CurrentLine]))
           /\ words' = words
    /\ (pc = "for_line" /\ pc' = "for_ingr" /\ IsBlank(Head(f))) =>
           /\ canonical' = <<>>
           /\ todo' = <<<<>>>>

C9_EmptyToken == [][C9_EmptyTokenStep]_vars

\* an empty token of a line with a non-empty canonical form has just been
\* taken, and replaced the value an earlier line gave to the empty key
C9_Witness ==
    /\ pc = "for_ingr"
    /\ Taken # <<>>
    /\ IsBlank(Taken[Len(Taken)])
    /\ canonical # <<>>
    /\ dict_get(ingr_dict, <<>>) = canonical
    /\ LET toks == FileTokens
       IN  \E l \in LinesWithKey(toks, <<>>) :
               l < CurrentLine /\ CanonicalForm(toks[l]) # canonical

\* C10: the sub-words a token appends to the word list, concatenated with no
\* separator, are the alias key the same token inserts: after the step that
\* concatenation is a key of the map holding the current canonical form, it
\* is the token's key, and nothing is appended exactly when the key is empty.
C10_TokenStep ==
    (pc = "for_ingr" /\ todo # <<>>) =>
        LET added == SubSeq(words', Len(words) + 1, Len(words'))
        IN  /\ words' = words \o added
            /\ Flatten(added) = KeyOf(Head(todo))
            /\ Flatten(added) \in dict_keys(ingr_dict')
            /\ dict_get(ingr_dict', Flatten(added)) = canonical
            /\ (added = <<>>) <=> (KeyOf(Head(todo)) = <<>>)
            /\ \A n \in 1..Len(ingr_dict') :
                   ingr_dict'[n][1] \in dict_keys(ingr_dict) \cup {Flatten(added)}

C10_WordsSpellKey == [][C10_TokenStep]_vars

\* a token of two sub-words separated by a tab has just been taken
C10_Witness ==
    /\ pc = "for_ingr"
    /\ Taken # <<>>
    /\ \E i \in 1..Len(Taken[Len(Taken)]) : Taken[Len(Taken)][i] = TAB
    /\ Len(words) >= 2
    /\ words[Len(words) - 1] \o words[Len(words)] = KeyOf(Taken[Len(Taken)])
    /\ words[Len(words) - 1] \o words[Len(words)] \in dict_keys(ingr_dict)

====
